---- MODULE Spec2Model ----
(***************************************************************************)
(* Highlight pipeline of the credit-report highlighter:                    *)
(*   - text extraction and dynamic chunking                                *)
(*       (test-improved-gpt5-vision.py, pymupdf_highlight_server.py)       *)
(*   - coordinate normalization, validation gate and deduplication         *)
(*       (test-improved-gpt5-vision.py, _normalize_and_validate)           *)
(*   - merge of pattern and vision results                                 *)
(*       (hybrid-pattern-vision-analyzer.py, _merge_results)               *)
(*   - vision analysis of the chunks, one call per chunk                   *)
(*       (test-improved-gpt5-vision.py, _perform_vision_analysis)          *)
(*   - placement of the highlights                                         *)
(*       (pymupdf_highlight_server.py, PreciseHighlighter, /highlight-pdf; *)
(*        scripts/run_real_vision_batch_offline.py, add_highlights)        *)
(*   - retry loop of the offline batch                                     *)
(*       (scripts/run_real_vision_batch_offline.py, run)                   *)
(*                                                                         *)
(* Lengths in points are held as integers in hundredths of a point, the    *)
(* resolution of the server's round(bbox, 2); pixel coordinates are        *)
(* integers.  A text is modelled by its length, confidences by percent.    *)
(***************************************************************************)
EXTENDS Integers, Sequences, FiniteSets, TLC

VARIABLES pc, doc,
          text_data, image_data, chunks,
          issues, normalized_issues, validated_issues, deduped, renormalized,
          pattern_issues, vision_issues, merged,
          payload, status, annots,
          chunk_k, in_flight, context_summary, calls, ledger, raw_issues,
          page_i, attempt, last_err, batch_issues, attempt_log

chunkVars == <<text_data, image_data, chunks>>
nvVars    == <<issues, normalized_issues, validated_issues, deduped, renormalized>>
mergeVars == <<pattern_issues, vision_issues, merged>>
placeVars == <<payload, status, annots>>
visionVars == <<chunk_k, in_flight, context_summary, calls, ledger, raw_issues>>
batchVars == <<page_i, attempt, last_err, batch_issues, attempt_log>>
moreVars  == <<placeVars, visionVars, batchVars>>
vars      == <<pc, doc, chunkVars, nvVars, mergeVars, moreVars>>

(* ------------------------------ bounds --------------------------------- *)
MaxPages     == 3
MaxFindings  == 1
MaxDupes     == 2
MaxMerged    == 2
MaxPlaced    == 2
MaxBatchPages == 6
MaxMixed     == 4

(* ----------------------------- helpers --------------------------------- *)
Range(s) == {s[i] : i \in 1..Len(s)}

RECURSIVE SeqsUpTo(_, _)
SeqsUpTo(S, n) ==
  IF n = 0 THEN {<<>>}
  ELSE LET shorter == SeqsUpTo(S, n - 1)
       IN  shorter \cup {Append(s, e) : s \in {t \in shorter : Len(t) = n - 1}, e \in S}

RECURSIVE Concat(_)
Concat(ss) == IF ss = <<>> THEN <<>> ELSE Head(ss) \o Concat(Tail(ss))

(* ------------------------- document and server ------------------------- *)
LetterWidth  == 61200
LetterHeight == 79200
PageSizes    == {<<LetterWidth, LetterHeight>>, <<59500, 84200>>}

\* A span of text on a page: length of its text and its bounding box.
Span(len, x, y, w, h) == [textLen |-> len, x |-> x, y |-> y, width |-> w, height |-> h]

\* /extract-text-coordinates: the spans of every page, in page order, each
\* tagged with its 1-based page number; a page without text contributes none.
RECURSIVE ServerTokens(_, _)
ServerTokens(d, p) ==
  IF p > Len(d) THEN <<>>
  ELSE [k \in 1..Len(d[p].tokens) |->
          [page |-> p, textLen |-> d[p].tokens[k].textLen,
           x |-> d[p].tokens[k].x, y |-> d[p].tokens[k].y,
           width |-> d[p].tokens[k].width, height |-> d[p].tokens[k].height]]
       \o ServerTokens(d, p + 1)

\* /convert-to-images: one image per page of the document, all at the
\* resolution of the request.
ServerImages(d, dpi) == [p \in 1..Len(d) |-> [pageNumber |-> p, dpi |-> dpi]]

(* --------------------- _extract_text_coordinates ----------------------- *)
NoText == [ok |-> FALSE, pages |-> <<>>]

NewPage(page_num) ==
  [pageNumber |-> page_num, widthPoints |-> LetterWidth,
   heightPoints |-> LetterHeight, tokens |-> <<>>]

\* The loop over textTokens.  pages[page_num - 1] raises IndexError when the
\* page just appended is not at index page_num - 1; the enclosing except
\* turns that into a None result.
RECURSIVE GroupTokens(_, _)
GroupTokens(toks, pages) ==
  IF toks = <<>> THEN [ok |-> TRUE, pages |-> pages]
  ELSE LET t        == Head(toks)
           page_num == t.page
           grown    == IF page_num > Len(pages)
                       THEN Append(pages, NewPage(page_num))
                       ELSE pages
           token    == [textLen |-> t.textLen, x |-> t.x, y |-> t.y,
                        width |-> t.width, height |-> t.height]
       IN  IF page_num > Len(grown)
           THEN NoText
           ELSE GroupTokens(Tail(toks),
                  [grown EXCEPT ![page_num].tokens = Append(@, token)])

extract_text_coordinates(d, httpOk) ==
  IF httpOk THEN GroupTokens(ServerTokens(d, 1), <<>>) ELSE NoText

(* ------------------------ _create_dynamic_chunks ----------------------- *)
target_tokens    == 8000
hard_max_tokens  == 12000
tokens_per_image == 1200

RECURSIVE SumTextLen(_)
SumTextLen(toks) == IF toks = <<>> THEN 0 ELSE Head(toks).textLen + SumTextLen(Tail(toks))

\* Estimated tokens of the page at 0-based position i.
PageTokens(page, i, images) ==
  (SumTextLen(page.tokens) \div 4) + (IF i < Len(images) THEN tokens_per_image ELSE 0)

EmptyChunkUnnumbered(index) ==
  [chunkIndex |-> 0, pages |-> <<>>, images |-> <<>>, estimatedTokens |-> 0]

\* current_chunk = {'chunkIndex': len(chunks), 'pages': [], ...}
EmptyChunk(index) ==
  [chunkIndex |-> index, pages |-> <<>>, images |-> <<>>, estimatedTokens |-> 0]

ShouldCloseLate(current_chunk, page_tokens) ==
  /\ current_chunk.estimatedTokens > target_tokens
  /\ Len(current_chunk.pages) > 0

ShouldCloseMulti(current_chunk, page_tokens) ==
  /\ current_chunk.estimatedTokens + page_tokens > target_tokens
  /\ Len(current_chunk.pages) > 1

\* "Check if adding this page would exceed budget"
ShouldClose(current_chunk, page_tokens) ==
  /\ current_chunk.estimatedTokens + page_tokens > target_tokens
  /\ Len(current_chunk.pages) > 0

\* One iteration of the loop over pages; st = [chunks, current_chunk].
ChunkStep(st, page, i, images) ==
  LET page_tokens == PageTokens(page, i, images)
      closing     == ShouldClose(st.current_chunk, page_tokens)
      chunks1     == IF closing THEN Append(st.chunks, st.current_chunk) ELSE st.chunks
      current1    == IF closing THEN EmptyChunk(Len(chunks1)) ELSE st.current_chunk
  IN  [chunks |-> chunks1,
       current_chunk |->
         [current1 EXCEPT
            !.pages = Append(@, page.pageNumber),
            !.images = IF i < Len(images) THEN Append(@, images[i + 1].pageNumber) ELSE @,
            !.estimatedTokens = @ + page_tokens]]

RECURSIVE ChunkLoop(_, _, _, _)
ChunkLoop(st, pages, i, images) ==
  IF i >= Len(pages) THEN st
  ELSE ChunkLoop(ChunkStep(st, pages[i + 1], i, images), pages, i + 1, images)

create_dynamic_chunks(td, imgs) ==
  LET st == ChunkLoop([chunks |-> <<>>, current_chunk |-> EmptyChunk(0)],
                      td.pages, 0, imgs.images)
  IN  IF st.current_chunk.pages # <<>>
      THEN Append(st.chunks, st.current_chunk)
      ELSE st.chunks

(* --------------------- _extract_images (metadata) ---------------------- *)
NoImages == [ok |-> FALSE, images |-> <<>>, metadata |-> [pages |-> <<>>]]

extract_images(d, dpi, httpOk) ==
  IF httpOk
  THEN [ok |-> TRUE, images |-> ServerImages(d, dpi),
        metadata |-> [pages |-> ServerImages(d, dpi)]]
  ELSE NoImages

(* ------------------------ _normalize_and_validate ---------------------- *)
PageWidthLimit  == 61200
PageHeightLimit == 79200

NoCoords     == [x |-> 0, y |-> 0, width |-> 0, height |-> 0]
NoValidation == [inBounds |-> FALSE, intersectsTokens |-> FALSE, tokenCount |-> 0]

\* A finding as the analyzer returns it: pixel coordinates, no rects yet.
RawIssue(id, page, type, category, confidence, hasCoords, c) ==
  [id |-> id, pageNumber |-> page, type |-> type, category |-> category,
   confidence |-> confidence, hasCoords |-> hasCoords,
   coordinates |-> IF hasCoords THEN c ELSE NoCoords,
   rects |-> <<>>, hasValidation |-> FALSE, validation |-> NoValidation]

\* next((p for p in page_meta if p['pageNumber'] == page_num), None)
RECURSIVE FindMeta(_, _)
FindMeta(page_meta, page_num) ==
  IF page_meta = <<>> THEN <<>>
  ELSE IF Head(page_meta).pageNumber = page_num THEN <<Head(page_meta)>>
  ELSE FindMeta(Tail(page_meta), page_num)

\* A coordinate is an integer, or the float NaN of a parsed JSON response,
\* held as a number no coordinate takes.  Arithmetic with NaN gives NaN and
\* every comparison with NaN is false.
NaN == -99999

Plus(a, b) == IF a = NaN \/ b = NaN THEN NaN ELSE a + b

Less(a, b) == a # NaN /\ b # NaN /\ a < b

ToPointsUnscaled(v, dpi) == v * 100

\* coords[k] * (72.0 / dpi), in hundredths of a point.
ToPoints(v, dpi) == IF v = NaN THEN NaN ELSE (v * 7200) \div dpi

\* Step 1 for one issue: <<normalized>> or <<>> when the issue is skipped.
NormalizeIssue(issue, page_meta) ==
  LET meta == FindMeta(page_meta, issue.pageNumber)
  IN  IF meta = <<>> THEN <<>>
      ELSE IF ~issue.hasCoords THEN <<>>
      ELSE LET dpi == meta[1].dpi
           IN  <<[issue EXCEPT
                    !.rects = <<[x      |-> ToPoints(issue.coordinates.x, dpi),
                                 y      |-> ToPoints(issue.coordinates.y, dpi),
                                 width  |-> ToPoints(issue.coordinates.width, dpi),
                                 height |-> ToPoints(issue.coordinates.height, dpi),
                                 units  |-> "points"]>>,
                    !.hasCoords = FALSE,
                    !.coordinates = NoCoords]>>

RECURSIVE NormalizeAll(_, _)
NormalizeAll(iss, page_meta) ==
  IF iss = <<>> THEN <<>>
  ELSE NormalizeIssue(Head(iss), page_meta) \o NormalizeAll(Tail(iss), page_meta)

\* "Bounds check"
BoundsCheck(rect) ==
  ~(Less(rect.x, 0) \/ Less(rect.y, 0)
       \/ Less(PageWidthLimit, Plus(rect.x, rect.width))
       \/ Less(PageHeightLimit, Plus(rect.y, rect.height)))

FindTokensAnyPage(pages, page_num) ==
  IF pages = <<>> THEN <<>> ELSE Head(pages).tokens

\* next((p['tokens'] for p in text_data['pages'] if p['pageNumber'] == page_num), [])
RECURSIVE FindTokens(_, _)
FindTokens(pages, page_num) ==
  IF pages = <<>> THEN <<>>
  ELSE IF Head(pages).pageNumber = page_num THEN Head(pages).tokens
  ELSE FindTokens(Tail(pages), page_num)

\* "Check if rect intersects with token"
Intersects(rect, token) ==
  /\ Less(rect.x, token.x + token.width)
  /\ Less(token.x, Plus(rect.x, rect.width))
  /\ Less(rect.y, token.y + token.height)
  /\ Less(token.y, Plus(rect.y, rect.height))

RECURSIVE CountTokens(_, _)
CountTokens(rect, toks) ==
  IF toks = <<>> THEN 0
  ELSE (IF Intersects(rect, Head(toks)) THEN 1 ELSE 0) + CountTokens(rect, Tail(toks))

\* Step 2 for one issue: the issue with its validation record.
ValidateIssue(issue, td) ==
  LET rect  == issue.rects[1]
      count == CountTokens(rect, FindTokens(td.pages, issue.pageNumber))
  IN  [issue EXCEPT
         !.hasValidation = TRUE,
         !.validation = [inBounds |-> BoundsCheck(rect),
                         intersectsTokens |-> count > 0,
                         tokenCount |-> count]]

KeepCritical(issue) ==
  (issue.validation.inBounds /\ issue.validation.intersectsTokens) \/ issue.type = "critical"

KeepInBounds(issue) == issue.validation.inBounds

\* "Only keep validated issues"
Keep(issue) ==
  issue.validation.inBounds /\ (issue.validation.intersectsTokens \/ issue.type = "critical")

ValidateAll(norm, td) == [k \in 1..Len(norm) |-> ValidateIssue(norm[k], td)]

KeepValidatedAll(checked) == checked

RECURSIVE KeepValidated(_)
KeepValidated(checked) ==
  IF checked = <<>> THEN <<>>
  ELSE (IF Keep(Head(checked)) THEN <<Head(checked)>> ELSE <<>>) \o KeepValidated(Tail(checked))

\* Python round(n / d): nearest integer, a tie goes to the even one.
RoundHalfEven(n, d) ==
  LET q == n \div d
      r == n % d
  IN  IF 2 * r < d THEN q
      ELSE IF 2 * r > d THEN q + 1
      ELSE IF q % 2 = 0 THEN q ELSE q + 1

BucketFloor(v) == (v \div 1000) * 1000

\* round(rect['x'] / 10) * 10, in hundredths of a point.
Bucket(v) == RoundHalfEven(v, 1000) * 1000

HashKeyNoCategory(issue) ==
  <<issue.pageNumber, "", Bucket(issue.rects[1].x), Bucket(issue.rects[1].y)>>

\* f"{issue['pageNumber']}_{issue['category']}_{round(x / 10) * 10}_{round(y / 10) * 10}"
HashKey(issue) ==
  <<issue.pageNumber, issue.category, Bucket(issue.rects[1].x), Bucket(issue.rects[1].y)>>

\* Step 3: st = [seen, deduped].
RECURSIVE DedupLoop(_, _)
DedupLoop(st, validated) ==
  IF validated = <<>> THEN st
  ELSE LET issue    == Head(validated)
           hash_key == HashKey(issue)
       IN  IF hash_key \notin st.seen
           THEN DedupLoop([seen |-> st.seen \cup {hash_key},
                           deduped |-> Append(st.deduped, issue)], Tail(validated))
           ELSE DedupLoop(st, Tail(validated))

DeduplicateTwice(validated) == validated \o validated

Deduplicate(validated) == DedupLoop([seen |-> {}, deduped |-> <<>>], validated).deduped

(* ----------------------------- _merge_results -------------------------- *)
DetectedIssue(error_type, page_num, x, y, confidence, method) ==
  [error_type |-> error_type, page_num |-> page_num,
   bbox |-> [x |-> x, y |-> y, width |-> 5000, height |-> 1200],
   confidence |-> confidence, method |-> method]

\* round(issue.bbox[k] / 10) * 10  ("Round to nearest 10 pixels")
MergeBucket(v) == RoundHalfEven(v, 1000) * 1000

MergeKey(issue) ==
  <<issue.page_num, MergeBucket(issue.bbox.x), MergeBucket(issue.bbox.y), issue.error_type>>

RECURSIVE KeyIndex(_, _, _)
KeyIndex(unique, key, k) ==
  IF k > Len(unique) THEN 0
  ELSE IF unique[k].key = key THEN k
  ELSE KeyIndex(unique, key, k + 1)

ReplacesOnTie(issue, kept) == issue.confidence >= kept.confidence

\* "Keep the one with higher confidence"
Replaces(issue, kept) == issue.confidence > kept.confidence

\* The dict 'unique' is a sequence of [key, issue] in insertion order; an
\* assignment to an existing key keeps the key's position.
RECURSIVE MergeLoop(_, _)
MergeLoop(unique, all_issues) ==
  IF all_issues = <<>> THEN unique
  ELSE LET issue == Head(all_issues)
           key   == MergeKey(issue)
           k     == KeyIndex(unique, key, 1)
       IN  IF k = 0
           THEN MergeLoop(Append(unique, [key |-> key, issue |-> issue]), Tail(all_issues))
           ELSE IF Replaces(issue, unique[k].issue)
           THEN MergeLoop([unique EXCEPT ![k].issue = issue], Tail(all_issues))
           ELSE MergeLoop(unique, Tail(all_issues))

merge_results(pattern, vision) ==
  LET unique == MergeLoop(<<>>, pattern \o vision)
  IN  [k \in 1..Len(unique) |-> unique[k].issue]

(* ------------------------- _create_highlighted_pdf --------------------- *)
\* highlights_payload: one entry per validated issue, with the first of its
\* rectangles as coordinates.
HighlightsPayload(validated) ==
  [k \in 1..Len(validated) |->
     [id |-> validated[k].id, type |-> validated[k].type,
      pageNumber |-> validated[k].pageNumber, hasCoords |-> TRUE,
      coordinates |-> [x |-> validated[k].rects[1].x, y |-> validated[k].rects[1].y,
                       width |-> validated[k].rects[1].width,
                       height |-> validated[k].rects[1].height]]]

(* -------------------- PreciseHighlighter and /highlight-pdf ------------ *)
\* issues_by_page: a dict, held as the sequence of [key, issues] in the
\* order in which the page numbers first appear among the issues.
RECURSIVE GroupByPage(_, _)
GroupByPage(issues_by_page, iss) ==
  IF iss = <<>> THEN issues_by_page
  ELSE LET issue    == Head(iss)
           page_num == issue.pageNumber - 1
           k        == KeyIndex(issues_by_page, page_num, 1)
       IN  IF k = 0
           THEN GroupByPage(Append(issues_by_page, [key |-> page_num, issues |-> <<issue>>]),
                            Tail(iss))
           ELSE GroupByPage([issues_by_page EXCEPT ![k].issues = Append(@, issue)], Tail(iss))

\* fitz.Rect(x, y, x + width, y + height)
Rect(x, y, width, height) == [x0 |-> x, y0 |-> y, x1 |-> x + width, y1 |-> y + height]

\* page.rect
PageRect(page) == [x0 |-> 0, y0 |-> 0, x1 |-> page.width, y1 |-> page.height]

Max(a, b) == IF a >= b THEN a ELSE b
Min(a, b) == IF a <= b THEN a ELSE b

IsEmptyRect(r) == r.x0 >= r.x1 \/ r.y0 >= r.y1

\* rect.intersects(page_rect): both rectangles are non-empty and so is
\* their intersection.
RectIntersects(r, q) ==
  /\ ~IsEmptyRect(r) /\ ~IsEmptyRect(q)
  /\ ~IsEmptyRect([x0 |-> Max(r.x0, q.x0), y0 |-> Max(r.y0, q.y0),
                   x1 |-> Min(r.x1, q.x1), y1 |-> Min(r.y1, q.y1)])

\* doc[page_num] as the 1-based position of the page; a negative page_num
\* counts from the end of the document.
PageIndex(page_num, n) == (page_num % n) + 1

Highlighted(st, page_index, rect, issue) ==
  [st EXCEPT !.annots = Append(@, [page |-> page_index, rect |-> rect, id |-> issue.id])]

AddClipped(st, d, page_index, issue) ==
  IF ~issue.hasCoords THEN [st EXCEPT !.raised = TRUE]
  ELSE LET c == issue.coordinates
       IN  Highlighted(st, page_index,
                       [x0 |-> Max(c.x, 0), y0 |-> Max(c.y, 0),
                        x1 |-> Min(c.x + c.width, d[page_index].width),
                        y1 |-> Min(c.y + c.height, d[page_index].height)], issue)

\* _add_highlight_to_page on st = [annots, raised]: the annotations of the
\* open document and whether a ValueError has been raised.  The border
\* annotation repeats the rectangle and its failure is swallowed.
add_highlight_to_page(st, d, page_index, issue) ==
  IF ~issue.hasCoords THEN [st EXCEPT !.raised = TRUE]
  ELSE LET c    == issue.coordinates
           rect == Rect(c.x, c.y, c.width, c.height)
       IN  IF ~RectIntersects(rect, PageRect(d[page_index]))
           THEN [st EXCEPT !.raised = TRUE]
           ELSE Highlighted(st, page_index, rect, issue)

RECURSIVE PageIssuesLoop(_, _, _, _)
PageIssuesLoop(st, d, page_index, page_issues) ==
  IF st.raised \/ page_issues = <<>> THEN st
  ELSE PageIssuesLoop(add_highlight_to_page(st, d, page_index, Head(page_issues)),
                      d, page_index, Tail(page_issues))

\* for page_num, page_issues in issues_by_page.items()
RECURSIVE PagesLoop(_, _, _)
PagesLoop(st, d, issues_by_page) ==
  IF st.raised \/ issues_by_page = <<>> THEN st
  ELSE LET page_num == Head(issues_by_page).key
       IN  IF page_num >= Len(d) THEN PagesLoop(st, d, Tail(issues_by_page))
           ELSE PagesLoop(PageIssuesLoop(st, d, PageIndex(page_num, Len(d)),
                                         Head(issues_by_page).issues),
                          d, Tail(issues_by_page))

\* PreciseHighlighter.highlight_pdf
highlight_pdf(d, iss) ==
  PagesLoop([annots |-> <<>>, raised |-> FALSE], d, GroupByPage(<<>>, iss))

AnyCoordsValid(issue) == TRUE

\* _has_valid_coords
has_valid_coords(issue) == issue.hasCoords

\* POST /highlight-pdf: the status of the response and the annotations of
\* the document the highlighter held when it returned or raised.
HighlightPdfEndpoint(d, iss) ==
  IF \E k \in 1..Len(iss) : ~has_valid_coords(iss[k])
  THEN [status |-> "400", annots |-> <<>>]
  ELSE LET st == highlight_pdf(d, iss)
       IN  [status |-> IF st.raised THEN "500" ELSE "200", annots |-> st.annots]

(* --------------------- add_highlights (offline batch) ------------------ *)
\* v * factor with factor = 72.0 / dpi
Scaled(v, dpi) == (v * 72) \div dpi

\* One iteration of the loop over the issues.
AddHighlightsStep(st, d, issue, dpi) ==
  LET page_idx == issue.pageNumber - 1
      c        == IF issue.hasCoords THEN issue.coordinates ELSE NoCoords
      rect     == [x0 |-> Scaled(c.x, dpi), y0 |-> Scaled(c.y, dpi),
                   x1 |-> Scaled(c.x + c.width, dpi), y1 |-> Scaled(c.y + c.height, dpi)]
  IN  IF page_idx < 0 \/ page_idx >= Len(d) THEN [st EXCEPT !.raised = TRUE]
      ELSE IF NaN \in {c.x, c.y, c.width, c.height} THEN st
      ELSE IF c.width <= 0 \/ c.height <= 0 THEN st
      ELSE IF ~RectIntersects(rect, PageRect(d[page_idx + 1])) THEN st
      ELSE Highlighted(st, page_idx + 1, rect, issue)

RECURSIVE AddHighlightsLoop(_, _, _, _)
AddHighlightsLoop(st, d, iss, dpi) ==
  IF st.raised \/ iss = <<>> THEN st
  ELSE AddHighlightsLoop(AddHighlightsStep(st, d, Head(iss), dpi), d, Tail(iss), dpi)

\* add_highlights: "saved" when doc.save was reached, "error" when a
\* ValueError was raised before it.
add_highlights(d, iss, dpi) ==
  LET st == AddHighlightsLoop([annots |-> <<>>, raised |-> FALSE], d, iss, dpi)
  IN  [status |-> IF st.raised \/ Len(st.annots) = 0 THEN "error" ELSE "saved",
       annots |-> st.annots]

(* ----------------------- run (offline batch) --------------------------- *)
\* for i in range(min(5, len(doc)))
PagesToAnalyse(d) == Min(5, Len(d))

attemptsFlat == <<120, 120, 120>>

\* attempts = [120, 180, 240]
attempts == <<120, 180, 240>>

\* Where the retry loop stands after an attempt that raised: at the next
\* timeout of the page, or, the timeouts exhausted, at the next page.
AfterFailure(i, a) ==
  IF a + 1 < Len(attempts)
  THEN [page_i |-> i, attempt |-> a + 1]
  ELSE [page_i |-> i + 1, attempt |-> 0]

NoBreak(i, a) == AfterFailure(i, a)

\* 'break': after an attempt that succeeded the loop over the timeouts ends.
AfterSuccess(i, a) == [page_i |-> i + 1, attempt |-> 0]

(* ----------------------- _perform_vision_analysis ---------------------- *)
\* A context summary is named after the chunk whose response carried it:
\* chunkIndex + 1, and 0 for the empty string.
ContextLostOnFailure(outcome, chunkIndex, context) ==
  IF outcome = "ok" THEN chunkIndex + 1 ELSE 0

\* context_summary after the call for the chunk: parsed.get('contextSummary',
\* '') of a response that parsed, unchanged otherwise.
ContextAfter(outcome, chunkIndex, context) ==
  IF outcome = "ok" THEN chunkIndex + 1
  ELSE IF outcome = "ok_no_summary" THEN 0
  ELSE context

\* vision_findings_raw['chunks'] after the call: an entry for a response
\* that parsed and for one that raised JSONDecodeError; any other exception
\* is printed only.
LedgerAfter(outcome, chunk, entries) ==
  IF outcome \in {"ok", "ok_no_summary"}
  THEN Append(entries, [chunkIndex |-> chunk.chunkIndex, pages |-> chunk.pages, parsedOk |-> TRUE])
  ELSE IF outcome = "bad_json"
  THEN Append(entries, [chunkIndex |-> chunk.chunkIndex, pages |-> chunk.pages, parsedOk |-> FALSE])
  ELSE entries

\* all_issues after the call: the issues of a response that parsed, here one
\* issue on the first page of the chunk.
IssuesAfter(outcome, chunk, found) ==
  IF outcome \in {"ok", "ok_no_summary"}
  THEN Append(found, [chunkIndex |-> chunk.chunkIndex, pageNumber |-> chunk.pages[1]])
  ELSE found

(* ------------------------------ input sets ----------------------------- *)
DpiSet == {72, 300}

Page(w, h, toks) == [width |-> w, height |-> h, tokens |-> toks]

\* Texts of a page for the chunker: none, a few characters, and lengths
\* whose cost is at, just above and far above the budgets.
TextChoices ==
  { <<>>,
    <<Span(2, 9000, 9000, 12000, 6000)>>,
    <<Span(11200, 9000, 9000, 12000, 6000)>>,
    <<Span(11204, 9000, 9000, 12000, 6000)>>,
    <<Span(5600, 9000, 9000, 12000, 6000), Span(5600, 9000, 20000, 12000, 6000)>>,
    <<Span(43204, 9000, 9000, 12000, 6000)>> }

ChunkDocs ==
  UNION { [1..n -> {Page(LetterWidth, LetterHeight, t) : t \in TextChoices}] : n \in 1..MaxPages }

\* Two-page documents for the validation gate: Letter or A4, each page with
\* or without a span of text at (90, 90) .. (210, 150).
GateTexts == { <<>>, <<Span(40, 9000, 9000, 12000, 6000)>> }

GateDocs ==
  { d \in UNION { [1..2 -> {Page(sz[1], sz[2], t) : t \in GateTexts}] :
                    sz \in PageSizes } :
      extract_text_coordinates(d, TRUE).ok }

Px(x, y, w, h) == [x |-> x, y |-> y, width |-> w, height |-> h]

GateRects ==
  { Px(100, 100, 200, 40), Px(600, 780, 50, 50), Px(100, 780, 50, 50),
    Px(600, 100, 10, 40), Px(-10, 100, 50, 40), Px(300, 300, 50, 40),
    Px(0, 0, 612, 792) }

GateFindings ==
  { RawIssue(0, p, t, "FCRA_violation", 85, TRUE, c) :
      p \in 1..3, t \in {"critical", "warning"}, c \in GateRects }
  \cup { RawIssue(0, p, t, "FCRA_violation", 85, FALSE, NoCoords) :
      p \in 1..3, t \in {"critical", "warning"} }

\* Findings that differ in page, category, confidence and top-left corner
\* around the cell boundaries at 100 and 110 points.
DupeCorners == {<<96, 100>>, <<100, 100>>, <<105, 100>>, <<106, 100>>, <<100, 106>>}

DupeFindings ==
  { RawIssue(0, p, "warning", cat, conf, TRUE, Px(c[1], c[2], 50, 20)) :
      p \in 1..2, cat \in {"FCRA_violation", "missing_data"}, conf \in {70, 95},
      c \in DupeCorners }

DupeDoc == [p \in 1..2 |-> Page(LetterWidth, LetterHeight, <<Span(40, 9000, 9000, 12000, 6000)>>)]

WithIds(s) == [k \in 1..Len(s) |-> [s[k] EXCEPT !.id = k]]

MergeIssues(method) ==
  { DetectedIssue(e, p, x, 10000, conf, method) :
      e \in {"collection", "late_payment"}, p \in 0..1,
      x \in {9600, 10000, 10600}, conf \in {70, 95} }

\* Documents for the highlighter: one or two pages, Letter or A4.
PlaceDocs ==
  UNION { [1..n -> {Page(sz[1], sz[2], <<>>)}] : n \in 1..2, sz \in PageSizes }

\* Rectangles inside the page, across its right edge, beyond it, touching
\* the right edge of a Letter page from outside, and without width.
PlaceRects ==
  { Px(10000, 10000, 20000, 4000), Px(58000, 10000, 5000, 4000),
    Px(70000, 10000, 5000, 4000), Px(61200, 10000, 5000, 4000),
    Px(10000, 10000, 0, 4000) }

PlaceIssue(page, hasCoords, c) ==
  [id |-> 0, type |-> "warning", pageNumber |-> page, hasCoords |-> hasCoords, coordinates |-> c]

PlaceIssues ==
  { PlaceIssue(p, TRUE, c) : p \in 0..3, c \in PlaceRects }
  \cup { PlaceIssue(p, FALSE, NoCoords) : p \in 1..2 }

\* Documents of the offline batch, and what a successful analysis of a page
\* returns: one issue on that page, in pixels at 300 DPI.
BatchDocs == { [p \in 1..n |-> Page(LetterWidth, LetterHeight, <<>>)] : n \in 1..MaxBatchPages }

PageFindings(page) ==
  { <<[PlaceIssue(page, TRUE, Px(40000, 40000, 80000, 16000)) EXCEPT !.id = page]>> }

\* Documents for the vision analysis: every page has text, either a few
\* characters or enough to fill half the budget of a chunk.
VisionDocs ==
  UNION { [1..n -> {Page(LetterWidth, LetterHeight, t) :
                      t \in { <<Span(2, 9000, 9000, 12000, 6000)>>,
                              <<Span(11204, 9000, 9000, 12000, 6000)>> }}] : n \in 1..MaxPages }

\* How a call of the vision model ends: a response that parses, with or
\* without a contextSummary; a response that is not JSON; an exception of
\* the call (a status other than 200 such as 401 or 400, or a timeout).
CallOutcomes == {"ok", "ok_no_summary", "bad_json", "api_error"}

\* The worked example: a 3-page document with text on every page, and five
\* raw detections at 72 DPI: two duplicates over the text of one page, one
\* beyond the right edge, one in bounds away from any text, one valid and
\* unique; in any order of arrival.
ExampleDoc == [p \in 1..3 |-> Page(LetterWidth, LetterHeight, <<Span(40, 9000, 9000, 12000, 6000)>>)]

ExampleFindings ==
  { << RawIssue(0, pd, "warning", "FCRA_violation", 85, TRUE, Px(100, 100, 50, 20)),
       RawIssue(0, pd, "warning", "FCRA_violation", 85, TRUE, Px(102, 101, 50, 20)),
       RawIssue(0, 1, t, "FCRA_violation", 85, TRUE, Px(600, 100, 50, 20)),
       RawIssue(0, 2, "warning", "FCRA_violation", 85, TRUE, Px(300, 300, 50, 40)),
       RawIssue(0, pu, "warning", "FCRA_violation", 85, TRUE, Px(150, 120, 50, 20)) >> :
      pd \in 1..3, pu \in 1..3, t \in {"critical", "warning"} }

Permuted(s, f) == [k \in 1..Len(s) |-> s[f[k]]]

\* Findings with degenerate rectangles, in pixels: a coordinate that is
\* NaN, a width or height of 0, a negative width; next to them rectangles
\* of positive size that cover the text, touch its right or lower edge from
\* outside, touch its corner, or lie apart from it (at 72 DPI the text of a
\* page is at (90, 90) .. (210, 150)).
DegenerateRects ==
  { Px(100, 100, NaN, 40), Px(100, 100, 200, NaN),
    Px(100, 100, 0, 40), Px(100, 100, 200, 0), Px(150, 100, -20, 40),
    Px(100, 100, 200, 40), Px(210, 100, 50, 40), Px(100, 150, 50, 40),
    Px(210, 150, 50, 40), Px(40, 100, 50, 40), Px(300, 300, 50, 40) }

DegenerateFindings ==
  { RawIssue(0, p, t, "FCRA_violation", 85, TRUE, c) :
      p \in 1..2, t \in {"critical", "warning"}, c \in DegenerateRects }

\* Findings of one 10-point cell, (210, 150), of a page whose text is at
\* (90, 90) .. (210, 150): two that lie over the text, one that lies beside
\* it, one that runs out of the page, and one without coordinates.
MixedFindings ==
  { RawIssue(0, p, "warning", "FCRA_violation", conf, TRUE, Px(208, 148, 50, 20)) :
      p \in 1..2, conf \in {70, 95} }
  \cup { RawIssue(0, 1, "warning", "FCRA_violation", 70, TRUE, Px(206, 146, 50, 20)),
          RawIssue(0, 1, "warning", "FCRA_violation", 95, TRUE, Px(212, 152, 50, 20)),
          RawIssue(0, 1, "warning", "FCRA_violation", 70, TRUE, Px(212, 152, 50, 20)),
          RawIssue(0, 1, "warning", "FCRA_violation", 95, TRUE, Px(208, 148, 600, 20)),
          RawIssue(0, 1, "warning", "FCRA_violation", 85, FALSE, NoCoords) }

(* ------------------------------- states -------------------------------- *)
IdleChunk == /\ text_data = NoText
             /\ image_data = NoImages
             /\ chunks = <<>>

IdleGate  == /\ issues = <<>>
             /\ normalized_issues = <<>>
             /\ validated_issues = <<>>
             /\ deduped = <<>>
             /\ renormalized = <<>>

IdleMerge == /\ pattern_issues = <<>>
             /\ vision_issues = <<>>
             /\ merged = <<>>

IdlePlace == /\ payload = <<>>
             /\ status = "none"
             /\ annots = <<>>

IdleVision == /\ chunk_k = 0
              /\ in_flight = FALSE
              /\ context_summary = 0
              /\ calls = <<>>
              /\ ledger = <<>>
              /\ raw_issues = <<>>

IdleBatch == /\ page_i = 0
             /\ attempt = 0
             /\ last_err = FALSE
             /\ batch_issues = <<>>
             /\ attempt_log = <<>>

IdleMore  == IdlePlace /\ IdleVision /\ IdleBatch

InitChunk ==
  /\ pc = "start"
  /\ doc \in ChunkDocs
  /\ IdleChunk /\ IdleGate /\ IdleMerge /\ IdleMore

\* The state in which run_analysis calls _normalize_and_validate.
GateState(findings, limit, dpis) ==
  /\ pc = "findings"
  /\ \E dpi \in dpis :
       /\ text_data = extract_text_coordinates(doc, TRUE)
       /\ image_data = extract_images(doc, dpi, TRUE)
  /\ chunks = create_dynamic_chunks(text_data, image_data)
  /\ issues \in {WithIds(s) : s \in SeqsUpTo(findings, limit)}
  /\ normalized_issues = <<>>
  /\ validated_issues = <<>>
  /\ deduped = <<>>
  /\ renormalized = <<>>
  /\ IdleMerge /\ IdleVision /\ IdleBatch /\ IdlePlace

InitGate ==
  /\ doc \in GateDocs
  /\ GateState(GateFindings, MaxFindings, DpiSet)

\* The gate on findings with degenerate rectangles.
InitDegenerate ==
  /\ doc \in GateDocs
  /\ GateState(DegenerateFindings, MaxFindings, DpiSet)

InitDedup ==
  /\ doc = DupeDoc
  /\ GateState(DupeFindings, MaxDupes, {72})

\* The gate on valid and rejected findings of the same cell.
InitMixed ==
  /\ doc = DupeDoc
  /\ GateState(MixedFindings, MaxMixed, {72})

InitMerge ==
  /\ pc = "detected"
  /\ doc = <<>>
  /\ IdleChunk /\ IdleGate /\ IdleMore
  /\ pattern_issues \in SeqsUpTo(MergeIssues("pattern"), MaxMerged)
  /\ vision_issues \in SeqsUpTo(MergeIssues("vision"), MaxMerged - Len(pattern_issues))
  /\ merged = <<>>

\* A request to the highlighter: a document and a list of issues.
InitPlace ==
  /\ pc = "request"
  /\ doc \in PlaceDocs
  /\ IdleChunk /\ IdleGate /\ IdleMerge /\ IdleVision /\ IdleBatch
  /\ payload \in {WithIds(s) : s \in SeqsUpTo(PlaceIssues, MaxPlaced)}
  /\ status = "none"
  /\ annots = <<>>

\* run() has opened one PDF of the batch.
InitBatch ==
  /\ pc = "batch_page"
  /\ doc \in BatchDocs
  /\ IdleChunk /\ IdleGate /\ IdleMerge /\ IdleVision /\ IdlePlace /\ IdleBatch

\* The state in which run_analysis calls _perform_vision_analysis.
InitVision ==
  /\ pc = "chunked"
  /\ doc \in VisionDocs
  /\ text_data = extract_text_coordinates(doc, TRUE)
  /\ image_data = extract_images(doc, 300, TRUE)
  /\ chunks = create_dynamic_chunks(text_data, image_data)
  /\ IdleGate /\ IdleMerge /\ IdlePlace /\ IdleBatch /\ IdleVision

\* The worked example, at the call of _normalize_and_validate.
InitExample ==
  /\ doc = ExampleDoc
  /\ pc = "findings"
  /\ text_data = extract_text_coordinates(doc, TRUE)
  /\ image_data = extract_images(doc, 72, TRUE)
  /\ chunks = create_dynamic_chunks(text_data, image_data)
  /\ issues \in {WithIds(Permuted(s, f)) : s \in ExampleFindings, f \in Permutations(1..5)}
  /\ normalized_issues = <<>>
  /\ validated_issues = <<>>
  /\ deduped = <<>>
  /\ renormalized = <<>>
  /\ IdleMerge /\ IdleMore

(* ------------------------------- actions ------------------------------- *)
\* run_analysis, phase 1
ExtractText ==
  /\ pc = "start"
  /\ \E httpOk \in BOOLEAN :
       /\ text_data' = extract_text_coordinates(doc, httpOk)
       /\ pc' = IF text_data'.ok THEN "text" ELSE "failed"
  /\ UNCHANGED <<doc, image_data, chunks, nvVars, mergeVars, moreVars>>

\* run_analysis, phase 2
ExtractImages ==
  /\ pc = "text"
  /\ \E httpOk \in BOOLEAN :
       /\ image_data' = extract_images(doc, 300, httpOk)
       /\ pc' = IF image_data'.ok THEN "images" ELSE "failed"
  /\ UNCHANGED <<doc, text_data, chunks, nvVars, mergeVars, moreVars>>

\* run_analysis, phase 3
CreateChunks ==
  /\ pc = "images"
  /\ chunks' = create_dynamic_chunks(text_data, image_data)
  /\ pc' = "chunked"
  /\ UNCHANGED <<doc, text_data, image_data, nvVars, mergeVars, moreVars>>

\* run_analysis, phase 5: steps 1, 2 and 3 of _normalize_and_validate.  The
\* validation record is stored in the normalized issue itself.
NormalizeAndValidate ==
  /\ pc = "findings"
  /\ LET checked == ValidateAll(NormalizeAll(issues, image_data.metadata.pages), text_data)
     IN  /\ normalized_issues' = checked
         /\ validated_issues' = KeepValidated(checked)
         /\ deduped' = Deduplicate(KeepValidated(checked))
  /\ pc' = "validated"
  /\ UNCHANGED <<doc, chunkVars, issues, renormalized, mergeVars, moreVars>>

\* Step 1 run again over the persisted vision_findings_normalized issues.
NormalizeAgain ==
  /\ pc = "validated"
  /\ renormalized' = NormalizeAll(normalized_issues, image_data.metadata.pages)
  /\ pc' = "renormalized"
  /\ UNCHANGED <<doc, chunkVars, issues, normalized_issues, validated_issues,
                 deduped, mergeVars, moreVars>>

\* analyze, phase 3
MergeResults ==
  /\ pc = "detected"
  /\ merged' = merge_results(pattern_issues, vision_issues)
  /\ pc' = "merged"
  /\ UNCHANGED <<doc, chunkVars, nvVars, pattern_issues, vision_issues, moreVars>>

\* run_analysis, phase 6: _create_highlighted_pdf posts the validated issues
\* to /highlight-pdf and writes the PDF of a 200 response.
CreateHighlightedPdf ==
  /\ pc = "validated"
  /\ IF deduped = <<>>
     THEN /\ pc' = "no_highlights"
          /\ UNCHANGED placeVars
     ELSE \E httpOk \in BOOLEAN :
            LET highlights_payload == HighlightsPayload(deduped)
                response == HighlightPdfEndpoint(doc, highlights_payload)
            IN  /\ payload' = highlights_payload
                /\ status' = IF httpOk THEN response.status ELSE "unreachable"
                /\ annots' = IF httpOk THEN response.annots ELSE <<>>
                /\ pc' = IF httpOk /\ response.status = "200"
                         THEN "highlighted" ELSE "highlight_failed"
  /\ UNCHANGED <<doc, chunkVars, nvVars, mergeVars, visionVars, batchVars>>

\* POST /highlight-pdf with the document and the issues of the request.
HighlightPdfRequest ==
  /\ pc = "request"
  /\ LET response == HighlightPdfEndpoint(doc, payload)
     IN  /\ status' = response.status
         /\ annots' = response.annots
  /\ pc' = "responded"
  /\ UNCHANGED <<doc, chunkVars, nvVars, mergeVars, payload, visionVars, batchVars>>

\* add_highlights(pdf_path, issues, out_path, dpi) of the offline batch.
AddHighlights ==
  /\ pc = "request"
  /\ \E dpi \in DpiSet :
       LET result == add_highlights(doc, payload, dpi)
       IN  /\ status' = result.status
           /\ annots' = result.annots
  /\ pc' = "batch_highlighted"
  /\ UNCHANGED <<doc, chunkVars, nvVars, mergeVars, payload, visionVars, batchVars>>

\* One pass of "for t in attempts" for page page_i + 1: the call either
\* returns the page's issues, which ends the loop, or raises; after the loop
\* the run moves to the next page, last_err telling whether it was skipped.
AnalyzeAttempt ==
  /\ pc = "batch_page"
  /\ page_i < PagesToAnalyse(doc)
  /\ LET t == attempts[attempt + 1]
     IN  \/ \E page_issues \in PageFindings(page_i + 1) :
              /\ batch_issues' = batch_issues \o page_issues
              /\ attempt_log' = Append(attempt_log, [page |-> page_i + 1, timeout |-> t, ok |-> TRUE])
              /\ last_err' = FALSE
              /\ page_i' = AfterSuccess(page_i, attempt).page_i
              /\ attempt' = AfterSuccess(page_i, attempt).attempt
         \/ /\ attempt_log' = Append(attempt_log, [page |-> page_i + 1, timeout |-> t, ok |-> FALSE])
            /\ last_err' = TRUE
            /\ page_i' = AfterFailure(page_i, attempt).page_i
            /\ attempt' = AfterFailure(page_i, attempt).attempt
            /\ UNCHANGED batch_issues
  /\ UNCHANGED <<pc, doc, chunkVars, nvVars, mergeVars, placeVars, visionVars>>

\* After the last page: without issues the PDF is skipped, otherwise the
\* issues are highlighted by add_highlights at 300 DPI.
FinishDocument ==
  /\ pc = "batch_page"
  /\ page_i = PagesToAnalyse(doc)
  /\ IF batch_issues = <<>>
     THEN /\ pc' = "batch_skipped"
          /\ UNCHANGED placeVars
     ELSE LET result == add_highlights(doc, batch_issues, 300)
          IN  /\ payload' = batch_issues
              /\ status' = result.status
              /\ annots' = result.annots
              /\ pc' = "batch_highlighted"
  /\ UNCHANGED <<doc, chunkVars, nvVars, mergeVars, visionVars, batchVars>>

\* "for chunk in chunks": the prompt is built with the current
\* context_summary and the request is sent; requests.post blocks until the
\* call returns or raises.
VisionCall ==
  /\ pc = "chunked"
  /\ ~in_flight
  /\ chunk_k < Len(chunks)
  /\ in_flight' = TRUE
  /\ calls' = Append(calls, [chunkIndex |-> chunks[chunk_k + 1].chunkIndex,
                             context |-> context_summary, outcome |-> "pending"])
  /\ UNCHANGED <<pc, doc, chunkVars, nvVars, mergeVars, placeVars, batchVars,
                 chunk_k, context_summary, ledger, raw_issues>>

\* The call returns or raises, and the loop moves to the next chunk.
VisionReturn ==
  /\ pc = "chunked"
  /\ in_flight
  /\ \E outcome \in CallOutcomes :
       LET chunk == chunks[chunk_k + 1]
       IN  /\ context_summary' = ContextAfter(outcome, chunk.chunkIndex, context_summary)
           /\ ledger' = LedgerAfter(outcome, chunk, ledger)
           /\ raw_issues' = IssuesAfter(outcome, chunk, raw_issues)
           /\ calls' = [calls EXCEPT ![Len(calls)].outcome = outcome]
  /\ in_flight' = FALSE
  /\ chunk_k' = chunk_k + 1
  /\ UNCHANGED <<pc, doc, chunkVars, nvVars, mergeVars, placeVars, batchVars>>

\* After the loop: vision_findings_raw is saved and the issues are returned.
VisionDone ==
  /\ pc = "chunked"
  /\ ~in_flight
  /\ chunk_k = Len(chunks)
  /\ pc' = "analysed"
  /\ UNCHANGED <<doc, chunkVars, nvVars, mergeVars, moreVars>>

NextChunk == ExtractText \/ ExtractImages \/ CreateChunks
NextGate  == NormalizeAndValidate \/ NormalizeAgain
NextMerge == MergeResults

SpecChunk == InitChunk /\ [][NextChunk]_vars
SpecGate  == InitGate /\ [][NextGate]_vars
SpecDedup == InitDedup /\ [][NextGate]_vars
SpecMerge == InitMerge /\ [][NextMerge]_vars

\* The validation gate followed by the highlight request.
NextPipeline == NormalizeAndValidate \/ CreateHighlightedPdf
SpecPipeline == InitGate /\ [][NextPipeline]_vars

\* The worked example through the gate and the highlight request.
SpecExample == InitExample /\ [][NextPipeline]_vars

\* The two highlighters, each on the same request.
NextPlace == HighlightPdfRequest \/ AddHighlights
SpecPlace == InitPlace /\ [][NextPlace]_vars

\* The offline batch on one PDF.
NextBatch == AnalyzeAttempt \/ FinishDocument
SpecBatch == InitBatch /\ [][NextBatch]_vars

\* The vision analysis of the chunks of a document.
NextVision == VisionCall \/ VisionReturn \/ VisionDone
SpecVision == InitVision /\ [][NextVision]_vars

\* The validation gate on findings with degenerate rectangles.
SpecDegenerate == InitDegenerate /\ [][NextGate]_vars

\* The gate on every family of findings.
InitFunnel == InitGate \/ InitDedup \/ InitExample \/ InitMixed
SpecFunnel == InitFunnel /\ [][NextGate]_vars

\* The validation gate on valid and rejected findings of the same cell.
SpecMixed == InitMixed /\ [][NextGate]_vars

\* Both deduplications: step 3 of _normalize_and_validate and _merge_results.
InitDistinct == InitDedup \/ InitMerge
NextDistinct == NormalizeAndValidate \/ NormalizeAgain \/ MergeResults
SpecDistinct == InitDistinct /\ [][NextDistinct]_vars

TypeOK ==
  /\ pc \in {"start", "text", "images", "chunked", "failed",
            "findings", "validated", "renormalized", "detected", "merged",
            "no_highlights", "highlighted", "highlight_failed",
            "request", "responded", "batch_highlighted",
            "batch_page", "batch_skipped", "analysed"}
  /\ status \in {"none", "200", "400", "500", "unreachable", "saved", "error"}
  /\ Len(deduped) <= Len(validated_issues)
  /\ Len(validated_issues) <= Len(normalized_issues)

(* ======================= properties of the chunker ===================== *)
PageNumbers(n) == [p \in 1..n |-> p]

Contiguous(ps) == \A k \in 1..(Len(ps) - 1) : ps[k + 1] = ps[k] + 1

ChunkPages == Concat([k \in 1..Len(chunks) |-> chunks[k].pages])

\* Estimated cost of page p of the document, from the document itself.
DocPageCost(p) == (SumTextLen(doc[p].tokens) \div 4) + tokens_per_image

RECURSIVE SumCost(_)
SumCost(ps) == IF ps = <<>> THEN 0 ELSE DocPageCost(Head(ps)) + SumCost(Tail(ps))

\* C1: the chunks cover every page of the document exactly once: their page
\* lists, concatenated in chunk order, are the page numbers 1..N in
\* increasing order, and the pages of each chunk are contiguous; pages
\* without extracted text included.
ChunksCoverDocument ==
  pc = "chunked" =>
    /\ ChunkPages = PageNumbers(Len(doc))
    /\ \A k \in 1..Len(chunks) : Contiguous(chunks[k].pages)

\* C2: every chunk with more than one page has estimatedTokens, and the
\* summed cost of its pages, at most the target budget of 8000.
ChunkWithinTarget ==
  pc = "chunked" =>
    \A k \in 1..Len(chunks) :
      Len(chunks[k].pages) > 1 =>
        /\ chunks[k].estimatedTokens <= 8000
        /\ SumCost(chunks[k].pages) <= 8000

\* A chunk of several pages that was closed because the next page did not fit.
ChunkClosedBeforeOverflow ==
  /\ pc = "chunked"
  /\ \E k \in 1..(Len(chunks) - 1) :
       /\ Len(chunks[k].pages) > 1
       /\ chunks[k].estimatedTokens + DocPageCost(chunks[k + 1].pages[1]) > 8000

\* C3: a page whose own cost exceeds the hard budget of 12000 is in the
\* output as the only page of its chunk, and in no other chunk.
OversizedPageAlone ==
  pc = "chunked" =>
    \A p \in 1..Len(doc) :
      DocPageCost(p) > 12000 =>
        /\ \E k \in 1..Len(chunks) : chunks[k].pages = <<p>>
        /\ Cardinality({k \in 1..Len(chunks) : p \in Range(chunks[k].pages)}) = 1

\* An oversized page between two other pages, alone in its chunk.
OversizedPageBetweenOthers ==
  /\ pc = "chunked"
  /\ \E p \in 2..(Len(doc) - 1) :
       /\ DocPageCost(p) > 12000
       /\ \E k \in 2..(Len(chunks) - 1) : chunks[k].pages = <<p>>

(* =============== properties of normalization and validation ============ *)
Fields == {"x", "y", "width", "height"}

Normalized == Range(normalized_issues)

IsValidated(n) == \E v \in Range(validated_issues) : v.id = n.id

\* The resolution recorded for page p by the image extraction.
RecordedDpi(p) == {m.dpi : m \in {q \in Range(image_data.metadata.pages) : q.pageNumber = p}}

\* C4: each of x, y, width and height of a normalized rectangle is the pixel
\* value of the raw finding times 72/DPI, DPI being the resolution recorded
\* for the finding's page; (100, 100, 200, 40) at 300 DPI gives
\* (24, 24, 48, 9.6) points.
NormalizedIsPixelsTimes72OverDpi ==
  pc = "validated" =>
    \A n \in Normalized :
      /\ n.rects[1].units = "points"
      /\ \E dpi \in RecordedDpi(n.pageNumber) :
           /\ \A f \in Fields : n.rects[1][f] * dpi = issues[n.id].coordinates[f] * 72 * 100
           /\ (dpi = 300 /\ issues[n.id].coordinates = Px(100, 100, 200, 40)) =>
                 /\ n.rects[1].x = 2400 /\ n.rects[1].y = 2400
                 /\ n.rects[1].width = 4800 /\ n.rects[1].height = 960

\* The rectangle (100, 100, 200, 40) of a 300 DPI page has been normalized.
NormalizedExampleAt300 ==
  /\ pc = "validated"
  /\ \E n \in Normalized :
       /\ RecordedDpi(n.pageNumber) = {300}
       /\ issues[n.id].coordinates = Px(100, 100, 200, 40)
       /\ n.rects[1].height = 960

\* C5: normalizing detections that are already tagged as points leaves every
\* rectangle unchanged: none is scaled again and none is dropped.
NormalizeTwiceIsNormalizeOnce ==
  pc = "renormalized" =>
    /\ Len(renormalized) = Len(normalized_issues)
    /\ \A k \in 1..Len(normalized_issues) :
         k <= Len(renormalized) => renormalized[k].rects = normalized_issues[k].rects

\* C6: the gate's in-bounds flag is x >= 0, y >= 0, x + width <= width of the
\* detection's own page, y + height <= height of that page, whatever the
\* native size of the page, and a detection out of bounds is rejected.
InBoundsOfOwnPage ==
  pc = "validated" =>
    \A n \in Normalized :
      LET r == n.rects[1]
          inside == /\ r.x >= 0 /\ r.y >= 0
                    /\ r.x + r.width <= doc[n.pageNumber].width
                    /\ r.y + r.height <= doc[n.pageNumber].height
      IN  /\ n.validation.inBounds <=> inside
          /\ ~inside => ~IsValidated(n)

Overlap(r, t) ==
  /\ r.x < t.x + t.width /\ t.x < r.x + r.width
  /\ r.y < t.y + t.height /\ t.y < r.y + r.height

OverlapsTokenOfPage(n, p) == \E t \in Range(doc[p].tokens) : Overlap(n.rects[1], t)

\* C7: a detection the gate found in bounds passes iff its rectangle overlaps
\* a text token of its own page of the document or its type is 'critical'.
EvidenceOrCritical ==
  pc = "validated" =>
    \A n \in Normalized :
      n.validation.inBounds =>
        (IsValidated(n) <=> (OverlapsTokenOfPage(n, n.pageNumber) \/ n.type = "critical"))

\* A non-critical in-bounds detection of page 2 that lies over a token of
\* page 1 but over none of page 2 has been rejected.
OtherPageTokenIsNoEvidence ==
  /\ pc = "validated"
  /\ \E n \in Normalized :
       /\ n.validation.inBounds /\ n.type = "warning" /\ n.pageNumber = 2
       /\ OverlapsTokenOfPage(n, 1) /\ ~OverlapsTokenOfPage(n, 2)
       /\ ~IsValidated(n)

(* ====================== properties of deduplication ==================== *)
Validated == Range(validated_issues)
Deduped   == Range(deduped)

\* The coordinate rounded down to a multiple of the 10-point cell.
FloorCell(v) == v - (v % 1000)

Distance(a, b) == IF a >= b THEN a - b ELSE b - a

\* The multiple of 10 points nearest to the coordinate; of two equally near
\* multiples the even multiple of 10.
NearestCell(v) ==
  CHOOSE m \in {FloorCell(v), FloorCell(v) + 1000} :
    /\ Distance(v, m) <= 500
    /\ Distance(v, m) = 500 => (m \div 1000) % 2 = 0

FloorKey(i) ==
  <<i.pageNumber, i.category, FloorCell(i.rects[1].x), FloorCell(i.rects[1].y)>>

NearestKey(i) ==
  <<i.pageNumber, i.category, NearestCell(i.rects[1].x), NearestCell(i.rects[1].y)>>

\* The survivors are validated detections, no two of them have the same key,
\* and every validated detection has a survivor of its key: two validated
\* detections are merged into one survivor exactly when their keys are equal.
MergedIffSameKey(Key(_)) ==
  /\ Deduped \subseteq Validated
  /\ \A a, b \in Deduped : Key(a) = Key(b) => a = b
  /\ \A v \in Validated : \E d \in Deduped : Key(d) = Key(v)

\* C8 as stated: two validated detections are merged iff they agree on page,
\* category and the cell of the top-left corner, each coordinate rounded
\* down to a multiple of 10 points.
MergedIffSameFloorCell == pc = "validated" => MergedIffSameKey(FloorKey)

\* C8 as amended: two validated detections are merged iff they agree on page,
\* category and the cell of the top-left corner, each coordinate rounded to
\* the nearest multiple of 10 points (a tie to the even multiple).
MergedIffSameNearestCell == pc = "validated" => MergedIffSameKey(NearestKey)

\* Two validated detections of one page and category at x = 96 and x = 100
\* (cells 90 and 100 when rounded down) have been merged into one.
MergedAcrossFloorCells ==
  /\ pc = "validated"
  /\ \E a, b \in Validated :
       /\ a.pageNumber = b.pageNumber /\ a.category = b.category
       /\ a.rects[1].x = 9600 /\ b.rects[1].x = 10000 /\ a.rects[1].y = b.rects[1].y
       /\ Cardinality({d \in Deduped : d.id \in {a.id, b.id}}) = 1

SameGroup(a) == {b \in Validated : HashKey(b) = HashKey(a)}

\* C9: of every group of validated detections with the same page, category
\* and bucket exactly one survives, and it has the highest confidence of the
\* group, whatever the order of arrival.
StrongestOfGroupSurvives ==
  pc = "validated" =>
    \A a \in Validated :
      /\ Cardinality(SameGroup(a) \cap Deduped) = 1
      /\ \A d \in SameGroup(a) \cap Deduped : \A b \in SameGroup(a) : b.confidence <= d.confidence

(* ========================= properties of the merge ===================== *)
AllIssues == Range(pattern_issues) \cup Range(vision_issues)

MergeGroup(a) == {b \in AllIssues : MergeKey(b) = MergeKey(a)}

Survivors(a) == {k \in 1..Len(merged) : MergeKey(merged[k]) = MergeKey(a)}

Strongest(g) == {b \in g : \A c \in g : c.confidence <= b.confidence}

\* C10: of every group of issues with the same key exactly one survives; it
\* has the maximum confidence of the group, and it is a pattern-based one
\* when a pattern-based issue is among those with the maximum.
MergeKeepsStrongestPatternFirst ==
  pc = "merged" =>
    \A a \in AllIssues :
      /\ Cardinality(Survivors(a)) = 1
      /\ \A k \in Survivors(a) :
           /\ merged[k] \in Strongest(MergeGroup(a))
           /\ (\E b \in Strongest(MergeGroup(a)) : b.method = "pattern")
                 => merged[k].method = "pattern"

\* A pattern-based and a vision-based issue of one group tie on the maximum
\* and the pattern-based one is the survivor.
PatternWinsTie ==
  /\ pc = "merged"
  /\ \E a \in Range(pattern_issues), b \in Range(vision_issues) :
       /\ MergeKey(a) = MergeKey(b)
       /\ a \in Strongest(MergeGroup(a)) /\ b \in Strongest(MergeGroup(a))
       /\ \E k \in Survivors(a) : merged[k] = a

(* ============ distinct locations in both deduplications ================ *)
\* The location of a merged issue: page, error type and the cell of its corner.
NearestMergeKey(i) ==
  <<i.page_num, i.error_type, NearestCell(i.bbox.x), NearestCell(i.bbox.y)>>

\* Detections of the input that differ in Key have different survivors in
\* the output, and two detections that are the whole input and differ in Key
\* are both in the output.
KeptApart(In, Out, Key(_)) ==
  \A a, b \in In :
    Key(a) # Key(b) =>
      /\ \E da, db \in Out \cap In : da # db /\ Key(da) = Key(a) /\ Key(db) = Key(b)
      /\ In = {a, b} => {a, b} \subseteq Out

Placed(id) == status = "200" /\ \E k \in 1..Len(annots) : annots[k].id = id

\* The persisted records keep the detection as one the gate rejected: it is
\* among the normalized issues with its validation record and not among the
\* validated ones.
RecordedAsRejected(id) ==
  \E n \in Normalized : n.id = id /\ n.hasValidation /\ ~IsValidated(n)

\* C12: when the run has ended, every raw detection is in exactly one of two
\* terminal states: placed as a highlight, or discarded with a recorded
\* reason; none has been dropped without a record.
EveryDetectionPlacedOrDiscarded ==
  pc \in {"highlighted", "no_highlights"} =>
    \A k \in 1..Len(issues) :
      /\ Placed(issues[k].id) \/ RecordedAsRejected(issues[k].id)
      /\ ~(Placed(issues[k].id) /\ RecordedAsRejected(issues[k].id))

\* The persisted record of the detection says that it was discarded and why.
HasDiscardRecord(n) ==
  /\ "status" \in DOMAIN n /\ n["status"] = "discarded"
  /\ "reason" \in DOMAIN n /\ n["reason"] \in {"out-of-bounds", "no-evidence"}

\* No later stage holds the detection.
AbsentDownstream(id) ==
  /\ \A k \in 1..Len(validated_issues) : validated_issues[k].id # id
  /\ \A k \in 1..Len(deduped) : deduped[k].id # id
  /\ \A k \in 1..Len(payload) : payload[k].id # id
  /\ \A k \in 1..Len(annots) : annots[k].id # id

\* C13: a detection rejected by the gate is kept in the persisted record
\* with the status "discarded" and a reason code that is one of out-of-bounds
\* and no-evidence, and it is in no later stage: not in the input of the
\* deduplication, not in the deduplicated set, not in the highlight payload.
RejectedKeptAsDiscarded ==
  pc \in {"validated", "highlighted", "highlight_failed", "no_highlights"} =>
    \A n \in Normalized :
      (n.hasValidation /\ ~Keep(n)) => (HasDiscardRecord(n) /\ AbsentDownstream(n.id))

(* ==================== properties of the highlighters =================== *)
\* The page the server takes for the issue (a page number of 0 is taken
\* from the end of the document), or 0 when the document has no such page.
TargetPage(issue) ==
  IF issue.pageNumber > Len(doc) THEN 0
  ELSE IF issue.pageNumber >= 1 THEN issue.pageNumber
  ELSE Len(doc)

\* The rectangle (x, y, x + width, y + height) has an area in common with
\* page p of the document.
OverlapsPage(c, p) ==
  /\ c.width > 0 /\ c.height > 0
  /\ c.x < doc[p].width /\ c.x + c.width > 0
  /\ c.y < doc[p].height /\ c.y + c.height > 0

AnnotsOf(id) == {k \in 1..Len(annots) : annots[k].id = id}

\* C14: in PreciseHighlighter, an issue whose rectangle does not intersect
\* the rectangle of its page makes the /highlight-pdf request fail and gets
\* no annotation; and every annotation that is added has exactly the
\* rectangle (x, y, x + width, y + height) of its issue, on the issue's
\* page, neither clipped nor moved.
OutOfPageRaisesNeverClips ==
  pc = "responded" =>
    /\ \A k \in 1..Len(payload) :
         (payload[k].hasCoords /\ TargetPage(payload[k]) # 0
            /\ ~OverlapsPage(payload[k].coordinates, TargetPage(payload[k])))
           => (status \in {"400", "500"} /\ AnnotsOf(payload[k].id) = {})
    /\ \A a \in 1..Len(annots) :
         \E k \in 1..Len(payload) :
           /\ payload[k].id = annots[a].id
           /\ annots[a].page = TargetPage(payload[k])
           /\ annots[a].rect = [x0 |-> payload[k].coordinates.x,
                                y0 |-> payload[k].coordinates.y,
                                x1 |-> payload[k].coordinates.x + payload[k].coordinates.width,
                                y1 |-> payload[k].coordinates.y + payload[k].coordinates.height]

\* The request failed on a rectangle beyond the page, after a rectangle that
\* runs across the page's right edge had been annotated as it is.
FailedAfterUnclippedAnnotation ==
  /\ pc = "responded" /\ status = "500"
  /\ Len(payload) = 2 /\ Len(annots) = 1
  /\ annots[1].id = payload[1].id
  /\ annots[1].rect.x1 > doc[annots[1].page].width
  /\ TargetPage(payload[2]) # 0
  /\ payload[2].coordinates.x >= doc[TargetPage(payload[2])].width

\* The highlights of the PDF that was returned or saved; none when the run
\* failed.
OutputHighlights == IF status \in {"200", "saved"} THEN annots ELSE <<>>

\* C15: a run of PreciseHighlighter.highlight_pdf or of add_highlights is
\* all-or-nothing: the PDF it returns or saves has a highlight for every
\* submitted issue, or the run fails and no PDF is produced; a PDF with
\* highlights for only some of the submitted issues is never produced.
AllOrNothing ==
  pc \in {"responded", "batch_highlighted"} =>
    \/ status \notin {"200", "saved"}
    \/ \A k \in 1..Len(payload) :
         \E a \in 1..Len(OutputHighlights) : OutputHighlights[a].id = payload[k].id

(* ==================== properties of the offline batch ================== *)
\* The attempts made on a page, in the order in which they were made.
RECURSIVE AttemptsOn(_, _)
AttemptsOn(log, p) ==
  IF log = <<>> THEN <<>>
  ELSE (IF Head(log).page = p THEN <<Head(log)>> ELSE <<>>) \o AttemptsOn(Tail(log), p)

BatchDone == pc \in {"batch_skipped", "batch_highlighted"}

GaveUpOn(p) ==
  Len(AttemptsOn(attempt_log, p)) = 3 /\ \A k \in 1..3 : ~AttemptsOn(attempt_log, p)[k].ok

RetriesBounded ==
  /\ \A k \in 1..(Len(attempt_log) - 1) : attempt_log[k].page <= attempt_log[k + 1].page
  /\ \A p \in 1..Len(doc) :
       LET tries == AttemptsOn(attempt_log, p)
       IN  /\ Len(tries) <= 3
           /\ \A k \in 1..Len(tries) : tries[k].timeout = 120 + 60 * (k - 1)
           /\ \A k \in 1..(Len(tries) - 1) : ~tries[k].ok /\ tries[k].timeout < tries[k + 1].timeout
           /\ GaveUpOn(p) => \A k \in 1..Len(batch_issues) : batch_issues[k].pageNumber # p
           /\ (BatchDone /\ p <= 5) => Len(tries) >= 1

\* What is left of the run: three attempts for every page not yet analysed,
\* less the attempts made on the current page, and the final step.
RemainingSteps ==
  IF BatchDone THEN 0 ELSE 3 * (Min(5, Len(doc)) - page_i) - attempt + 1

\* C16: in the offline batch the analysis of a page is attempted at most 3
\* times, with the strictly larger timeouts 120, 180 and 240 seconds; the
\* first success ends the retries; a page whose attempts all fail adds no
\* findings, the run goes on with the next page, and the document is
\* finished: every step brings the end nearer and the run never stops
\* before the document is done.
RetriesBoundedAndDocumentFinished ==
  /\ []RetriesBounded
  /\ [][RemainingSteps' < RemainingSteps]_vars
  /\ [](RemainingSteps >= 0 /\ (~BatchDone => ENABLED NextBatch))

\* The run gave up on page 1 after three attempts, analysed page 2 at the
\* second attempt, and finished the document.
GaveUpOnPageOneAndFinished ==
  /\ BatchDone
  /\ GaveUpOn(1)
  /\ Len(AttemptsOn(attempt_log, 2)) = 2 /\ AttemptsOn(attempt_log, 2)[2].ok

(* ==================== properties of the vision analysis ================ *)
Failed(call) == call.outcome \in {"bad_json", "api_error"}

CallsFor(chunkIndex) == {k \in 1..Len(calls) : calls[k].chunkIndex = chunkIndex}

\* C17: a failure of the analysis call for one chunk that is not transient
\* (authentication error, malformed request, response that cannot be
\* parsed) is not retried, is recorded in the per-chunk ledger, and affects
\* only that chunk: every chunk is still analysed, the issues of the other
\* chunks are kept, and the run completes.
FailureRecordedOnceOthersAnalysed ==
  /\ \A k \in 1..Len(calls) :
       Failed(calls[k]) =>
         /\ Cardinality(CallsFor(calls[k].chunkIndex)) = 1
         /\ \E e \in 1..Len(ledger) :
              ledger[e].chunkIndex = calls[k].chunkIndex /\ ~ledger[e].parsedOk
  /\ pc = "chunked" => ENABLED NextVision
  /\ pc = "analysed" =>
       /\ \A c \in 1..Len(chunks) : CallsFor(chunks[c].chunkIndex) # {}
       /\ \A k \in 1..Len(calls) :
            ~Failed(calls[k]) =>
              \E i \in 1..Len(raw_issues) : raw_issues[i].chunkIndex = calls[k].chunkIndex

\* The summary carried by the response of a call: named after the chunk,
\* or empty (0) when the response has none.
Produced(call) == IF call.outcome = "ok" THEN call.chunkIndex + 1 ELSE 0

\* The latest call before call k whose response parsed, or 0.
LatestParsedBefore(k) ==
  LET parsed == {j \in 1..(k - 1) : calls[j].outcome \in {"ok", "ok_no_summary"}}
  IN  IF parsed = {} THEN 0 ELSE CHOOSE j \in parsed : \A i \in parsed : i <= j

\* C18: the chunks are analysed one after the other in increasing
\* chunkIndex: the call for a chunk is issued only when the call for the
\* chunk before it has returned or failed; and the context given to a chunk
\* is the summary of the latest earlier chunk whose response parsed (empty
\* when there is none), never that of the chunk itself or of a later one.
SequentialWithEarlierContext ==
  /\ \A k \in 1..Len(calls) :
       /\ calls[k].chunkIndex = k - 1
       /\ calls[k].outcome = "pending" => (k = Len(calls) /\ in_flight)
       /\ calls[k].context <= calls[k].chunkIndex
       /\ calls[k].context =
            (IF LatestParsedBefore(k) = 0 THEN 0 ELSE Produced(calls[LatestParsedBefore(k)]))
  /\ pc = "analysed" =>
       /\ Len(calls) = Len(chunks)
       /\ \A k \in 1..Len(calls) : calls[k].chunkIndex = chunks[k].chunkIndex

\* The call for the second chunk failed and the third chunk was given the
\* summary of the first.
ContextCarriedOverFailure ==
  /\ Len(calls) = 3
  /\ calls[1].outcome = "ok" /\ calls[2].outcome = "api_error"
  /\ calls[3].context = 1

\* The position of the issue in the list that was submitted.
Position(id) == CHOOSE k \in 1..Len(payload) : payload[k].id = id

\* C19: the highlights are emitted in a stable order: by page number
\* ascending, and within one page in the order in which the issues were
\* supplied, whichever page comes first in the list of issues.
EmittedByPageThenInputOrder ==
  pc = "responded" =>
    \A a, b \in 1..Len(annots) :
      a < b =>
        \/ annots[a].page < annots[b].page
        \/ /\ annots[a].page = annots[b].page
           /\ Position(annots[a].id) < Position(annots[b].id)

(* ======================= the worked example ============================ *)
\* The detections the gate rejected.
Rejected == {n \in Normalized : ~IsValidated(n)}

\* C20: the 3-page document processed as one chunk, with five raw
\* detections of which two are duplicates of each other, one is out of
\* bounds, one has no text evidence and one is valid and unique, ends with
\* exactly 2 placed highlights and exactly 2 discarded detections.
ExampleTwoPlacedTwoDiscarded ==
  /\ pc \in {"validated", "highlighted", "highlight_failed"} =>
       /\ Len(chunks) = 1
       /\ Len(issues) = 5 /\ Len(normalized_issues) = 5
       /\ Cardinality(Rejected) = 2
       /\ Len(validated_issues) = 3
       /\ Len(deduped) = 2
  /\ pc = "highlighted" =>
       /\ Len(annots) = 2
       /\ Cardinality({id \in 1..5 : Placed(id)}) = 2
  /\ pc # "no_highlights"

\* The example has run to the end: the PDF came back with two highlights,
\* the duplicates being on page 3 and the second of them having come first.
ExampleHighlighted ==
  /\ pc = "highlighted" /\ status = "200"
  /\ Len(doc) = 3 /\ Len(chunks) = 1 /\ Len(issues) = 5
  /\ Len(annots) = 2
  /\ \E a, b \in 1..5 :
       /\ a < b
       /\ issues[a].pageNumber = 3 /\ issues[a].coordinates.x = 102
       /\ issues[b].pageNumber = 3 /\ issues[b].coordinates.x = 100
       /\ Placed(issues[a].id) /\ ~Placed(issues[b].id)

(* ================= properties for degenerate rectangles ================ *)
NonFinite(c) == NaN \in {c.x, c.y, c.width, c.height}

\* The normalized issues that stem from the raw detection.
NormalizedOf(id) == {n \in Normalized : n.id = id}

\* C21: a detection with a non-finite coordinate is rejected by the stage
\* that receives it: in _normalize_and_validate it is never among the
\* validated or deduplicated detections that go on to the highlighter, and
\* its coordinates are not replaced by zero or another default.
NonFiniteRejected ==
  pc = "validated" =>
    \A k \in 1..Len(issues) :
      NonFinite(issues[k].coordinates) =>
        /\ \A n \in NormalizedOf(issues[k].id) :
             /\ ~IsValidated(n)
             /\ \A f \in Fields :
                  issues[k].coordinates[f] = NaN => n.rects[1][f] = NaN
        /\ \A d \in 1..Len(deduped) : deduped[d].id # issues[k].id

\* C22: a detection whose width or height is <= 0 after conversion to
\* points is dropped before the validation gate: it gets no validation
\* record, is not counted as validated and goes to no highlight.
EmptyDroppedBeforeGate ==
  pc = "validated" =>
    \A k \in 1..Len(issues) :
      (~NonFinite(issues[k].coordinates)
         /\ (issues[k].coordinates.width <= 0 \/ issues[k].coordinates.height <= 0)) =>
        /\ \A n \in NormalizedOf(issues[k].id) : ~n.hasValidation /\ ~IsValidated(n)
        /\ \A d \in 1..Len(deduped) : deduped[d].id # issues[k].id

(* ================== further properties of the highlighters ============= *)
\* C23: POST /highlight-pdf answers 400 and applies no highlight at all when
\* at least one submitted issue lacks a coordinates object with numeric x, y,
\* width and height; highlighting is attempted only when every issue of the
\* list has them.
InvalidCoordsAnswer400 ==
  pc = "responded" =>
    /\ (\E k \in 1..Len(payload) : ~payload[k].hasCoords) => (status = "400" /\ annots = <<>>)
    /\ (status # "400" \/ annots # <<>>) => \A k \in 1..Len(payload) : payload[k].hasCoords

\* A request whose first issue could be placed and whose second issue has
\* no coordinates was answered 400 without any highlight.
ValidThenMissingCoords ==
  /\ pc = "responded" /\ status = "400" /\ annots = <<>>
  /\ Len(payload) = 2
  /\ payload[1].hasCoords /\ TargetPage(payload[1]) # 0
  /\ OverlapsPage(payload[1].coordinates, TargetPage(payload[1]))
  /\ ~payload[2].hasCoords

(* ===================== further properties of the gate ================== *)
\* The length of what the intervals [a, a + la] and [b, b + lb] have in
\* common; negative when they are apart or one of them is inverted.
CommonExtent(a, la, b, lb) ==
  (IF a + la <= b + lb THEN a + la ELSE b + lb) - (IF a >= b THEN a ELSE b)

\* The rectangle and the token overlap with positive extent on both axes.
PositiveOverlap(r, t) ==
  /\ NaN \notin {r.x, r.y, r.width, r.height}
  /\ CommonExtent(r.x, r.width, t.x, t.width) > 0
  /\ CommonExtent(r.y, r.height, t.y, t.height) > 0

\* C24: the token-overlap test of the gate is a strict interval overlap on
\* both axes: tokenCount is the number of tokens of the detection's page
\* whose rectangle overlaps the detection's rectangle with positive extent
\* on both axes (a token that only touches it along an edge or at a corner
\* is not counted), and intersectsTokens says that there is such a token.
TokenCountIsStrictOverlap ==
  pc = "validated" =>
    \A n \in Normalized :
      LET toks == IF n.pageNumber \in 1..Len(doc) THEN doc[n.pageNumber].tokens ELSE <<>>
          over == {k \in 1..Len(toks) : PositiveOverlap(n.rects[1], toks[k])}
      IN  /\ n.validation.tokenCount = Cardinality(over)
          /\ n.validation.intersectsTokens <=> over # {}

\* The rectangle lies within the limits the gate compares against.
WithinGateLimits(r) ==
  /\ r.x >= 0 /\ r.y >= 0
  /\ r.x + r.width <= PageWidthLimit
  /\ r.y + r.height <= PageHeightLimit

\* C25: the exemption of 'critical' detections from the evidence test never
\* overrides the bounds check: a critical detection whose rectangle is out
\* of bounds is rejected, and every validated and every deduplicated
\* detection lies within the bounds.
CriticalNeverOverridesBounds ==
  pc = "validated" =>
    /\ \A n \in Normalized :
         (n.type = "critical" /\ ~WithinGateLimits(n.rects[1])) => ~IsValidated(n)
    /\ \A v \in Validated \cup Deduped : WithinGateLimits(v.rects[1])

\* A critical detection out of bounds has been rejected by the gate.
CriticalOutOfBoundsRejected ==
  /\ pc = "validated"
  /\ \E n \in Normalized :
       n.type = "critical" /\ ~WithinGateLimits(n.rects[1]) /\ ~IsValidated(n)

\* Every annotation is on the page whose 1-based number is the pageNumber of
\* its issue, a page of the document.
AnnotationsOnNumberedPage ==
  \A a \in 1..Len(annots) :
    \E k \in 1..Len(payload) :
      /\ payload[k].id = annots[a].id
      /\ payload[k].pageNumber \in 1..Len(doc)
      /\ annots[a].page = payload[k].pageNumber

\* C26: PreciseHighlighter.highlight_pdf places an annotation only on the
\* page whose 1-based number equals the pageNumber of the issue; an issue
\* whose pageNumber is outside 1..pageCount, 0 included, never produces an
\* annotation on any page.
AnnotatedOnlyOnOwnPage ==
  pc = "responded" => AnnotationsOnNumberedPage

\* 'stats' of vision_findings_validated.json
Stats ==
  [total      |-> Len(issues),
   normalized |-> Len(normalized_issues),
   validated  |-> Len(validated_issues),
   deduped    |-> Len(deduped)]

\* No detection occurs twice in the sequence.
NoneTwice(s) == \A j, k \in 1..Len(s) : j # k => s[j].id # s[k].id

\* C27: the stage counts of _normalize_and_validate form a funnel,
\* total >= normalized >= validated >= deduped >= 0; every deduplicated
\* detection is one of the validated detections and every validated one is
\* one of the normalized detections, each of which comes from a detection
\* of the input, none occurring twice; and deduped >= 1 whenever
\* validated >= 1.
StageCountsFormFunnel ==
  pc \in {"validated", "renormalized"} =>
    /\ Stats.total >= Stats.normalized
    /\ Stats.normalized >= Stats.validated
    /\ Stats.validated >= Stats.deduped
    /\ Stats.deduped >= 0
    /\ Deduped \subseteq Validated
    /\ Validated \subseteq Normalized
    /\ \A n \in Normalized : n.id \in 1..Len(issues)
    /\ NoneTwice(normalized_issues) /\ NoneTwice(validated_issues) /\ NoneTwice(deduped)
    /\ Stats.validated >= 1 => Stats.deduped >= 1

\* Every stage of the funnel has let through fewer detections than the one
\* before it, and a detection is left at the end.
FunnelNarrowsAtEveryStage ==
  /\ pc = "validated"
  /\ Stats.total > Stats.normalized
  /\ Stats.normalized > Stats.validated
  /\ Stats.validated > Stats.deduped
  /\ Stats.deduped >= 1

\* The detection is valid by the document itself: within the limits of the
\* gate, and over a text token of its page or critical.
ValidByDocument(n) ==
  /\ WithinGateLimits(n.rects[1])
  /\ OverlapsTokenOfPage(n, n.pageNumber) \/ n.type = "critical"

\* C28: deduplication runs only over validated detections, so a rejected
\* detection never suppresses a valid one: of the detections of one page,
\* category and cell, a valid one survives whenever one of them is valid,
\* also when a rejected detection of the group arrived earlier or has the
\* higher confidence.
RejectedNeverSuppressesValid ==
  pc = "validated" =>
    /\ \A d \in Deduped : d \in Validated /\ ValidByDocument(d)
    /\ \A n \in Normalized :
         ValidByDocument(n) =>
           \E d \in Deduped : NearestKey(d) = NearestKey(n) /\ ValidByDocument(d)

\* A rejected detection arrived first and with the higher confidence, and a
\* valid detection of its page, category and cell has survived.
ValidSurvivesEarlierRejected ==
  /\ pc = "validated"
  /\ \E r \in Normalized, d \in Deduped :
       /\ ~ValidByDocument(r) /\ ~IsValidated(r)
       /\ NearestKey(r) = NearestKey(d)
       /\ r.id < d.id /\ r.confidence > d.confidence

(* ===================== further properties of the chunker =============== *)
\* C29: _create_dynamic_chunks is greedy and never emits an empty chunk:
\* every chunk has at least one page, chunkIndex is the chunk's position in
\* the list, counted from 0, estimatedTokens is the sum of the costs of the
\* chunk's pages, and chunk k ends before chunk k + 1 only if the cost of
\* chunk k plus the cost of the first page of chunk k + 1 exceeds the target.
GreedyChunksNeverEmpty ==
  pc = "chunked" =>
    /\ \A k \in 1..Len(chunks) :
         /\ Len(chunks[k].pages) >= 1
         /\ chunks[k].chunkIndex = k - 1
         /\ chunks[k].estimatedTokens = SumCost(chunks[k].pages)
    /\ \A k \in 1..(Len(chunks) - 1) :
         SumCost(chunks[k].pages) + DocPageCost(Head(chunks[k + 1].pages)) > target_tokens

\* Two chunks: the first of two pages that fit the target together, the
\* second begun by a page that did not fit with them.
SecondChunkBegunByOverflow ==
  /\ pc = "chunked"
  /\ Len(chunks) = 2
  /\ Len(chunks[1].pages) = 2
  /\ chunks[1].estimatedTokens <= target_tokens
  /\ chunks[2].chunkIndex = 1

(* ================= further properties of the offline batch ============= *)
IssuesOf(p) == {k \in 1..Len(batch_issues) : batch_issues[k].pageNumber = p}

SucceededOn(log, p) == {k \in 1..Len(log) : log[k].page = p /\ log[k].ok}

\* The findings of a page are in the issues once if an attempt on the page
\* succeeded and not at all otherwise, and no attempt on a page follows a
\* successful one.
AppendedOncePerPage ==
  \A p \in 1..Len(doc) :
    /\ Cardinality(SucceededOn(attempt_log, p)) <= 1
    /\ Cardinality(IssuesOf(p)) = Cardinality(SucceededOn(attempt_log, p))
    /\ \A j \in SucceededOn(attempt_log, p) :
         \A k \in (j + 1)..Len(attempt_log) : attempt_log[k].page # p

\* An attempt that failed has left the issues as they were; one that
\* succeeded has appended the findings of its page and nothing else.
AttemptAppends ==
  Len(attempt_log') = Len(attempt_log) + 1 =>
    LET a == attempt_log'[Len(attempt_log')]
    IN  IF a.ok
        THEN /\ Len(batch_issues') = Len(batch_issues) + 1
             /\ SubSeq(batch_issues', 1, Len(batch_issues)) = batch_issues
             /\ batch_issues'[Len(batch_issues')].pageNumber = a.page
        ELSE batch_issues' = batch_issues

\* C30: in the retry loop of the offline batch the findings of one page are
\* appended to the issues at most once: an attempt that fails appends
\* nothing, and no attempt is made for a page after one has succeeded.
PageFindingsAppendedAtMostOnce ==
  []AppendedOncePerPage /\ [][AttemptAppends]_vars

\* Page 1 succeeded at its third attempt, after two failures, and page 2 at
\* its first: each page's findings are in the issues once.
SucceededAfterTwoFailures ==
  /\ Len(attempt_log) = 4
  /\ ~attempt_log[1].ok /\ ~attempt_log[2].ok /\ attempt_log[3].ok
  /\ attempt_log[3].page = 1 /\ attempt_log[4].page = 2 /\ attempt_log[4].ok
  /\ Cardinality(IssuesOf(1)) = 1 /\ Cardinality(IssuesOf(2)) = 1

====
